---- MODULE Spec2Model ----
(***************************************************************************)
(* Decision Intelligence Platform: the comparison pipeline (scoring,       *)
(* trade-off generation, narrative analysis), the SQLite store and the     *)
(* HTTP handlers of backend/main.py.                                       *)
(*                                                                         *)
(* Arithmetic.  Scores are Python floats.  Here an unrounded score is an   *)
(* exact fraction [n, d] with d > 0, and a reported (rounded) score is an  *)
(* integer number of hundredths: 8.33 is 833.  round(x, 2) is modelled as  *)
(* round-half-even on the exact value; the representation error of binary  *)
(* floating point (which can decide a tie such as 9.425, or a difference   *)
(* such as 8.11 - 7.11, either way) is outside the model.                  *)
(*                                                                         *)
(* Text.  A text (use_case, description) is a sequence of tokens: words    *)
(* and the whitespace token " ".  strip() drops the whitespace tokens at   *)
(* both ends, lower() maps each token, and a keyword test `w in text` is   *)
(* membership of the token w.                                              *)
(***************************************************************************)
EXTENDS Integers, Sequences, FiniteSets, TLC

VARIABLES
    comparisons,          \* table comparisons: the rows, in insertion order
    comparison_options,   \* table comparison_options: the rows, in insertion order
    request,              \* the input of the operation handled last
    response,             \* what that operation returned to its caller
    calls,                \* the stages that operation ran, in order
    fault,                \* the SQLite call that failed in that operation
    created_at,           \* column created_at of table comparisons, row by row
    clock                 \* SQLite's CURRENT_TIMESTAMP, in whole seconds

vars == <<comparisons, comparison_options, request, response, calls, fault,
          created_at, clock>>

-----------------------------------------------------------------------------
(* models.py *)

CloudProvider == {"aws", "azure", "gcp", "multi"}

ComplianceLevel == {"none", "basic", "hipaa", "soc2", "pci", "gdpr"}

SkillLevel == {"beginner", "intermediate", "advanced", "expert"}

\* Optional[...] = None
None == "None"

-----------------------------------------------------------------------------
(* Inputs.  The models of models.py put no range on a number and no rule on *)
(* a name or a text: values off the 1-10 scale, repeated names and blank    *)
(* texts are accepted.  pros and cons are carried and never read: they are  *)
(* left out.                                                                *)

MaxOptions == 2

MaxStored == 2

MaxCallers == 2

MaxClock == 1

TechOption(name, description, cost, latency, scalability, compliance, cloud, skill) ==
    [name |-> name, description |-> description, cost |-> cost, latency |-> latency,
     scalability |-> scalability, compliance |-> compliance, cloud |-> cloud,
     team_skill_required |-> skill]

Constraints(budget, max_latency, required_scale, compliance, preferred_cloud, team_skill) ==
    [budget |-> budget, max_latency |-> max_latency, required_scale |-> required_scale,
     compliance |-> compliance, preferred_cloud |-> preferred_cloud,
     team_skill |-> team_skill]

ComparisonRequest(options, constraints, use_case) ==
    [options |-> options, constraints |-> constraints, use_case |-> use_case]

OptionCatalogue ==
    {TechOption("A", <<"managed", " ", "db">>, 5, 5, 5, "soc2", "aws", "intermediate"),
     TechOption("A", <<"self", " ", "hosted">>, 10, 10, 10, "hipaa", "aws", "expert"),
     TechOption("D", <<"queue">>, 9, 7, 5, "gdpr", "multi", "expert"),
     TechOption("E", <<"enterprise", " ", "grid">>, 4, 7, 8, "pci", "multi", "beginner"),
     TechOption("F", <<>>, 1, 1, 4, "none", "aws", "beginner"),
     TechOption("H", <<"lab">>, 12, 0, -2, "basic", "azure", "advanced")}

ConstraintCatalogue ==
    {Constraints(5, 5, 5, "soc2", "aws", "intermediate"),
     Constraints(3, 7, 9, "none", None, "expert"),
     Constraints(8, 3, 10, "basic", "gcp", "advanced"),
     Constraints(7, 8, 3, "gdpr", "azure", "beginner"),
     Constraints(10, 10, 1, "none", None, "expert"),
     Constraints(6, 4, 7, "soc2", "multi", "advanced"),
     Constraints(-1, -2, -1, "hipaa", "gcp", "expert"),
     Constraints(0, 5, 5, "basic", None, "advanced")}

UseCases ==
    {<<"web", " ", "app">>, <<" ", "Startup", " ", "MVP">>, <<"Enterprise", " ", "billing">>}

\* The empty text and a text of whitespace only
BlankUseCases == {<<>>, <<" ", " ">>}

\* A list cut to its first entry
FirstOf(list) == SubSeq(list, 1, IF list = <<>> THEN 0 ELSE 1)

\* The orders of n things
Orders(n) ==
    {p \in [1..n -> 1..n] : \A a, b \in 1..n : a # b => p[a] # p[b]}

\* The lists of at most n options of a catalogue
RECURSIVE OptionLists(_, _)
OptionLists(catalogue, n) ==
    IF n = 0 THEN {<<>>}
    ELSE LET shorter == OptionLists(catalogue, n - 1)
         IN  shorter \cup {Append(l, o) : l \in {s \in shorter : Len(s) = n - 1},
                                          o \in catalogue}

\* Three options of the catalogue, in each of their orders: lists of several
\* pairs
ThreeOptions ==
    <<CHOOSE o \in OptionCatalogue : o.name = "D",
      CHOOSE o \in OptionCatalogue : o.name = "E",
      CHOOSE o \in OptionCatalogue : o.name = "F">>

ThreeOptionLists ==
    {[i \in DOMAIN ThreeOptions |-> ThreeOptions[order[i]]] :
        order \in Orders(Len(ThreeOptions))}

ScoringRequests ==
    {ComparisonRequest(options, constraints, use_case) :
        options \in OptionLists(OptionCatalogue, MaxOptions) \cup ThreeOptionLists,
        constraints \in ConstraintCatalogue,
        use_case \in UseCases}

\* cost, latency, scalability: "1-10 scale"
Scale == 1..10

\* A request of one option and the constraints it meets exactly; preferred_cloud
\* is the option's cloud or None
ExactlyMet(cost, latency, scalability, compliance, cloud, skill, preferred_cloud) ==
    ComparisonRequest(
        <<TechOption("X", <<"exact">>, cost, latency, scalability, compliance, cloud, skill)>>,
        Constraints(cost, latency, scalability, compliance, preferred_cloud, skill),
        <<"web", " ", "app">>)

\* Every three values of the scale at one choice of tiers, and every choice of
\* tiers at each value of the scale
ExactRequests ==
    {ExactlyMet(cost, latency, scalability, "gdpr", "azure", "expert", None) :
        cost \in Scale, latency \in Scale, scalability \in Scale}
    \cup
    {ExactlyMet(v, v, v, compliance, cloud, skill, IF preferred THEN cloud ELSE None) :
        v \in Scale, compliance \in ComplianceLevel, cloud \in CloudProvider,
        skill \in SkillLevel, preferred \in BOOLEAN}

\* The requests the service is given: a valid one and the ones short of it by
\* an option or more, of a blank use case, or of a budget no option meets
ApiOptions ==
    <<TechOption("B", <<"Enterprise", " ", "suite">>, 6, 6, 4, "basic", "multi", "advanced"),
      TechOption("C", <<"cache">>, 7, 2, 9, "none", "gcp", "beginner"),
      TechOption("G", <<"stream">>, 8, 3, 10, "soc2", "gcp", "intermediate"),
      TechOption("B", <<"suite", " ", "lite">>, 2, 6, 4, "none", "multi", "beginner")>>

ApiOptionLists ==
    {SubSeq(ApiOptions, 1, n) : n \in 0..MaxOptions}

ApiRequests ==
    {ComparisonRequest(options, Constraints(5, 5, 5, "soc2", "aws", "intermediate"),
                       <<"Enterprise", " ", "billing">>) : options \in ApiOptionLists}
    \cup {ComparisonRequest(SubSeq(ApiOptions, 1, MaxOptions),
                            Constraints(5, 5, 5, "soc2", "aws", "intermediate"),
                            use_case) : use_case \in BlankUseCases}
    \cup {ComparisonRequest(SubSeq(ApiOptions, 1, MaxOptions),
                            Constraints(0, 5, 5, "basic", None, "advanced"),
                            <<"Enterprise", " ", "billing">>)}

-----------------------------------------------------------------------------
(* Exact fractions and rounding *)

Frac(n, d) == IF d < 0 THEN [n |-> 0 - n, d |-> 0 - d] ELSE [n |-> n, d |-> d]

Whole(k) == [n |-> k, d |-> 1]

FracLeq(x, y) == x.n * y.d <= y.n * x.d

\* Python max(a, b) and min(a, b): the first argument unless the second is
\* strictly greater (smaller)
FracMax(x, y) == IF FracLeq(y, x) THEN x ELSE y

FracMin(x, y) == IF FracLeq(x, y) THEN x ELSE y

FracAdd(x, y) == [n |-> x.n * y.d + y.n * x.d, d |-> x.d * y.d]

FracSub(x, y) == [n |-> x.n * y.d - y.n * x.d, d |-> x.d * y.d]

FracScale(k, x) == [n |-> k * x.n, d |-> x.d]

\* round(x, 2) in hundredths: the nearest hundredth, a tie going to the even one
Round2(x) ==
    LET h == 100 * x.n
        q == h \div x.d
        r == h % x.d
    IN  IF 2 * r > x.d \/ (2 * r = x.d /\ q % 2 = 1) THEN q + 1 ELSE q

\* A difference taken with its sign, where the code takes abs()
SignedDifference(k) == k

\* abs(x)
Abs(k) == IF k < 0 THEN 0 - k ELSE k

-----------------------------------------------------------------------------
(* scoring.py *)

\* An operation either returns a value or raises: [value |-> v] or [raise |-> e]
Return(v) == [value |-> v]

Raise(e) == [raise |-> e]

Raised(x) == "raise" \in DOMAIN x

\* The element of a set of one element.  The({body : x \in {e}}) is body with
\* x bound to e's value: the assignment x = e before body
The(S) == CHOOSE x \in S : TRUE

ZeroDivisionError == Raise("ZeroDivisionError")

\* ScoringEngine.weights, in hundredths
weights ==
    [cost |-> 25, latency |-> 20, scalability |-> 20,
     compliance |-> 15, cloud |-> 10, skill |-> 10]

score_cost(option_cost, budget_constraint) ==
    IF budget_constraint >= option_cost THEN Whole(10)
    ELSE IF budget_constraint = 0 THEN ZeroDivisionError
    ELSE LET penalty == Frac(option_cost - budget_constraint, budget_constraint)
         IN  FracMax(Whole(0), FracSub(Whole(10), FracScale(5, penalty)))

score_latency(option_latency, latency_constraint) ==
    IF option_latency <= latency_constraint THEN Whole(10)
    ELSE IF latency_constraint = 0 THEN ZeroDivisionError
    ELSE LET penalty == Frac(option_latency - latency_constraint, latency_constraint)
         IN  FracMax(Whole(0), FracSub(Whole(10), FracScale(5, penalty)))

score_scalability(option_scalability, required_scale) ==
    IF required_scale = 0 THEN ZeroDivisionError
    ELSE IF option_scalability >= required_scale
    THEN LET bonus == FracMin(Whole(2),
                              Frac(option_scalability - required_scale, required_scale))
         IN  FracMin(Whole(10), FracAdd(Whole(8), bonus))
    ELSE LET penalty == Frac(required_scale - option_scalability, required_scale)
         IN  FracMax(Whole(0), FracSub(Whole(8), FracScale(8, penalty)))

compliance_levels ==
    [none |-> 0, basic |-> 1, soc2 |-> 2, hipaa |-> 3, pci |-> 3, gdpr |-> 4]

score_compliance(option_compliance, required_compliance) ==
    LET option_level   == compliance_levels[option_compliance]
        required_level == compliance_levels[required_compliance]
    IN  IF option_level >= required_level THEN Whole(10)
        ELSE FracMax(Whole(0), Whole(10 - (required_level - option_level) * 3))

\* A cloud score without the case of no preference
score_cloud_of_preference(option_cloud, preferred_cloud) ==
    IF option_cloud = preferred_cloud THEN Whole(10)
    ELSE IF option_cloud = "multi" THEN Whole(9)
    ELSE Whole(6)

score_cloud(option_cloud, preferred_cloud) ==
    IF preferred_cloud = None THEN Whole(8)
    ELSE IF option_cloud = preferred_cloud THEN Whole(10)
    ELSE IF option_cloud = "multi" THEN Whole(9)
    ELSE Whole(6)

skill_levels == [beginner |-> 1, intermediate |-> 2, advanced |-> 3, expert |-> 4]

score_skill(required_skill, team_skill) ==
    LET required_level == skill_levels[required_skill]
        team_level     == skill_levels[team_skill]
    IN  IF team_level >= required_level THEN Whole(10)
        ELSE LET gap == required_level - team_level
             IN  FracMax(Whole(0), Whole(10 - gap * 3))

\* The six unrounded dimension scores of one option, or ZeroDivisionError
DimensionScores(option, constraints) ==
    LET c == score_cost(option.cost, constraints.budget)
        l == score_latency(option.latency, constraints.max_latency)
        s == score_scalability(option.scalability, constraints.required_scale)
    IN  IF Raised(c) \/ Raised(l) \/ Raised(s)
        THEN ZeroDivisionError
        ELSE [cost |-> c, latency |-> l, scalability |-> s,
              compliance |-> score_compliance(option.compliance, constraints.compliance),
              cloud |-> score_cloud(option.cloud, constraints.preferred_cloud),
              skill |-> score_skill(option.team_skill_required, constraints.team_skill)]

\* The weighted sum of the dimension scores rounded first, where the code
\* combines the unrounded ones
WeightedSumOfRounded(d) ==
    [n |-> weights.cost * Round2(d.cost) + weights.latency * Round2(d.latency)
           + weights.scalability * Round2(d.scalability)
           + weights.compliance * Round2(d.compliance)
           + weights.cloud * Round2(d.cloud) + weights.skill * Round2(d.skill),
     d |-> 10000]

\* cost_score * weights['cost'] + ... + skill_score * weights['skill']
WeightedSum(d) ==
    LET sum == FracAdd(FracAdd(FracAdd(FracAdd(FracAdd(
                   FracScale(weights.cost, d.cost),
                   FracScale(weights.latency, d.latency)),
                   FracScale(weights.scalability, d.scalability)),
                   FracScale(weights.compliance, d.compliance)),
                   FracScale(weights.cloud, d.cloud)),
                   FracScale(weights.skill, d.skill))
    IN  [n |-> sum.n, d |-> 100 * sum.d]

\* (cost_score + ... + skill_score) / 6
MeanOfSix(d) ==
    LET sum == FracAdd(FracAdd(FracAdd(FracAdd(FracAdd(
                   d.cost, d.latency), d.scalability), d.compliance), d.cloud), d.skill)
    IN  [n |-> sum.n, d |-> 6 * sum.d]

OptionScore(option_name, d, total_score, weighted_score) ==
    [option_name       |-> option_name,
     total_score       |-> Round2(total_score),
     cost_score        |-> Round2(d.cost),
     latency_score     |-> Round2(d.latency),
     scalability_score |-> Round2(d.scalability),
     compliance_score  |-> Round2(d.compliance),
     cloud_score       |-> Round2(d.cloud),
     skill_score       |-> Round2(d.skill),
     weighted_score    |-> Round2(weighted_score)]

score_single_option(option, constraints) ==
    LET d == DimensionScores(option, constraints)
    IN  IF Raised(d) THEN d
        ELSE Return(OptionScore(option.name, d, MeanOfSix(d), WeightedSum(d)))

\* An insertion that puts an index after the entries of equal key: a sort
\* that is not stable
RECURSIVE InsertAfterTies(_, _, _)
InsertAfterTies(keys, i, order) ==
    IF order = <<>> THEN <<i>>
    ELSE IF keys[Head(order)] >= keys[i]
         THEN <<Head(order)>> \o InsertAfterTies(keys, i, Tail(order))
         ELSE <<i>> \o order

\* sorted(items, key=..., reverse=True) as the order of the indices: Python's
\* sort is stable, so an index goes before the first one whose key is not
\* greater than its own, the later indices being in place already
RECURSIVE InsertDescending(_, _, _)
InsertDescending(keys, i, order) ==
    IF order = <<>> THEN <<i>>
    ELSE IF keys[Head(order)] > keys[i]
         THEN <<Head(order)>> \o InsertDescending(keys, i, Tail(order))
         ELSE <<i>> \o order

RECURSIVE SortedDescendingFrom(_, _)
SortedDescendingFrom(keys, i) ==
    IF i > Len(keys) THEN <<>>
    ELSE InsertDescending(keys, i, SortedDescendingFrom(keys, i + 1))

SortedDescending(keys) == SortedDescendingFrom(keys, 1)

SortedByKey(items, keys) ==
    LET order == SortedDescending(keys)
    IN  [k \in DOMAIN items |-> items[order[k]]]

\* A scoring that returns the score of the best option alone
score_best_option(options, constraints) ==
    LET each == [i \in DOMAIN options |-> score_single_option(options[i], constraints)]
    IN  IF \E i \in DOMAIN options : Raised(each[i]) THEN ZeroDivisionError
        ELSE Return(FirstOf(SortedByKey([i \in DOMAIN options |-> each[i].value],
                                        [i \in DOMAIN options |->
                                            each[i].value.weighted_score])))

score_options(options, constraints) ==
    LET each == [i \in DOMAIN options |-> score_single_option(options[i], constraints)]
    IN  IF \E i \in DOMAIN options : Raised(each[i]) THEN ZeroDivisionError
        ELSE Return(SortedByKey([i \in DOMAIN options |-> each[i].value],
                                [i \in DOMAIN options |-> each[i].value.weighted_score]))

-----------------------------------------------------------------------------
(* tradeoffs.py *)

KeyError == Raise("KeyError")

DimensionField(dimension) ==
    CASE dimension = "cost"        -> "cost_score"
      [] dimension = "latency"     -> "latency_score"
      [] dimension = "scalability" -> "scalability_score"
      [] dimension = "compliance"  -> "compliance_score"
      [] dimension = "cloud"       -> "cloud_score"
      [] dimension = "skill"       -> "skill_score"

\* Impact levels whose thresholds are exclusive, where the code's are inclusive
calculate_impact_exclusive(score_difference) ==
    IF score_difference > 400 THEN "high"
    ELSE IF score_difference > 200 THEN "medium"
    ELSE "low"

calculate_impact(score_difference) ==
    IF score_difference >= 400 THEN "high"
    ELSE IF score_difference >= 200 THEN "medium"
    ELSE "low"

\* One of the six blocks of _compare_options: the trade-offs (none or one) of
\* one dimension
CompareDimension(option_a, option_b, score_a, score_b, dimension) ==
    LET a == score_a[DimensionField(dimension)]
        b == score_b[DimensionField(dimension)]
    IN  IF Abs(a - b) > 100
        THEN LET winner == IF a > b THEN option_a.name ELSE option_b.name
                 loser  == IF winner = option_a.name THEN option_b.name
                           ELSE option_a.name
             IN  <<[option_a    |-> option_a.name,
                    option_b    |-> option_b.name,
                    dimension   |-> dimension,
                    winner      |-> winner,
                    explanation |-> <<dimension, winner, loser>>,
                    impact      |-> calculate_impact(Abs(a - b))]>>
        ELSE <<>>

compare_options(option_a, option_b, score_a, score_b) ==
    CompareDimension(option_a, option_b, score_a, score_b, "cost")
    \o CompareDimension(option_a, option_b, score_a, score_b, "latency")
    \o CompareDimension(option_a, option_b, score_a, score_b, "scalability")
    \o CompareDimension(option_a, option_b, score_a, score_b, "compliance")
    \o CompareDimension(option_a, option_b, score_a, score_b, "cloud")
    \o CompareDimension(option_a, option_b, score_a, score_b, "skill")

\* {score.option_name: score for score in scores}: a later entry replaces an
\* earlier one of the same name
score_lookup(scores, name) ==
    LET at == {k \in DOMAIN scores : scores[k].option_name = name}
    IN  IF at = {} THEN KeyError
        ELSE Return(scores[CHOOSE k \in at : \A m \in at : m <= k])

\* for i in range(n): for j in range(i + 1, n), from the pair (i, j) on
RECURSIVE PairsFrom(_, _, _)
PairsFrom(i, j, n) ==
    IF i > n THEN <<>>
    ELSE IF j > n THEN PairsFrom(i + 1, i + 2, n)
    ELSE <<(<<i, j>>)>> \o PairsFrom(i, j + 1, n)

\* The lists joined with the trade-offs of high impact moved to the front
HighImpact(t) == "impact" \in DOMAIN t /\ t.impact = "high"

RECURSIVE HighImpactFirst(_)
HighImpactFirst(lists) ==
    IF lists = <<>> THEN <<>>
    ELSE LET joined == Head(lists) \o HighImpactFirst(Tail(lists))
         IN  SelectSeq(joined, HighImpact)
             \o SelectSeq(joined, LAMBDA t : ~HighImpact(t))

\* tradeoffs.extend(pair_tradeoffs), pair after pair
RECURSIVE Flatten(_)
Flatten(lists) == IF lists = <<>> THEN <<>> ELSE Head(lists) \o Flatten(Tail(lists))

generate_tradeoffs(options, scores) ==
    LET pairs == PairsFrom(1, 2, Len(options))
        a(p)  == score_lookup(scores, options[pairs[p][1]].name)
        b(p)  == score_lookup(scores, options[pairs[p][2]].name)
    IN  IF \E p \in DOMAIN pairs : Raised(a(p)) \/ Raised(b(p)) THEN KeyError
        ELSE Return(Flatten([p \in DOMAIN pairs |->
                 compare_options(options[pairs[p][1]], options[pairs[p][2]],
                                 a(p).value, b(p).value)]))

-----------------------------------------------------------------------------
(* kiro_agent.py *)

IndexError == Raise("IndexError")

Whitespace == " "

\* str.lower(), token by token
LowerToken(t) ==
    CASE t = "Startup"    -> "startup"
      [] t = "MVP"        -> "mvp"
      [] t = "Enterprise" -> "enterprise"
      [] OTHER            -> t

lower(text) == [i \in DOMAIN text |-> LowerToken(text[i])]

\* `word in text`
Contains(text, word) == \E i \in DOMAIN text : text[i] = word

\* str.strip()
RECURSIVE lstrip(_)
lstrip(text) ==
    IF text # <<>> /\ Head(text) = Whitespace THEN lstrip(Tail(text)) ELSE text

RECURSIVE rstrip(_)
rstrip(text) ==
    IF text # <<>> /\ text[Len(text)] = Whitespace
    THEN rstrip(SubSeq(text, 1, Len(text) - 1)) ELSE text

strip(text) == rstrip(lstrip(text))

analyze_context(constraints, use_case) ==
    LET use_case_lower == lower(use_case)
    IN  [primary_concern |->
             IF constraints.budget <= 3 THEN "cost"
             ELSE IF constraints.max_latency <= 3 THEN "performance"
             ELSE IF constraints.compliance \in {"hipaa", "pci", "gdpr"} THEN "compliance"
             ELSE IF constraints.team_skill \in {"beginner", "intermediate"}
                  THEN "team_capability"
             ELSE "balanced",
         risk_tolerance |->
             IF \E word \in {"startup", "mvp", "prototype"} : Contains(use_case_lower, word)
             THEN "high"
             ELSE IF \E word \in {"enterprise", "production", "critical"} :
                        Contains(use_case_lower, word)
                  THEN "low"
             ELSE "medium",
         decision_type |-> "technical"]

\* max(scores, key=...): the first of the entries with the greatest key
MaxBy(scores, keys) ==
    scores[CHOOSE i \in DOMAIN scores :
               /\ \A j \in DOMAIN scores : keys[j] <= keys[i]
               /\ \A j \in DOMAIN scores : j < i => keys[j] < keys[i]]

Field(scores, field) == [i \in DOMAIN scores |-> scores[i][field]]

\* (latency_score + scalability_score) / 2, in two-hundredths
Performance(scores) ==
    [i \in DOMAIN scores |-> scores[i].latency_score + scores[i].scalability_score]

FirstN(list, n) == SubSeq(list, 1, IF Len(list) < n THEN Len(list) ELSE n)

Names(scores) == {scores[i].option_name : i \in DOMAIN scores}

SelectHigh(tradeoffs) == SelectSeq(tradeoffs, LAMBDA t : t.impact = "high")

\* Each insight is its sentence's name and the values put in it.  The joined
\* dimensions come from a Python set, whose order is not fixed: they are kept
\* as a set.
generate_insights(options, scores, tradeoffs) ==
    LET score_gap == scores[1].weighted_score - scores[Len(scores)].weighted_score
        high_impact_tradeoffs == SelectHigh(tradeoffs)
        cost_leaders == FirstN(SortedByKey(scores, Field(scores, "cost_score")), 2)
        perf_leaders == FirstN(SortedByKey(scores, Performance(scores)), 2)
        compliance_scores == Field(scores, "compliance_score")
        spread == {compliance_scores[i] - compliance_scores[j] :
                       i \in DOMAIN scores, j \in DOMAIN scores}
    IN  (IF score_gap < 100 THEN <<[insight |-> "close"]>>
         ELSE IF score_gap > 400
              THEN <<[insight |-> "clear_winner", option |-> scores[1].option_name]>>
         ELSE <<>>)
        \o (IF high_impact_tradeoffs # <<>>
            THEN <<[insight |-> "critical_tradeoffs",
                    dimensions |-> {high_impact_tradeoffs[k].dimension :
                                        k \in DOMAIN high_impact_tradeoffs}]>>
            ELSE <<>>)
        \o (IF Names(cost_leaders) # Names(perf_leaders)
            THEN <<[insight |-> "cost_vs_performance"]>> ELSE <<>>)
        \o (IF \E g \in spread : g > 300
            THEN <<[insight |-> "compliance_differences"]>> ELSE <<>>)

generate_recommendations(options, scores, tradeoffs, context) ==
    LET cost_leader == MaxBy(scores, Field(scores, "cost_score"))
        perf_leader == MaxBy(scores, Performance(scores))
        compliance_leader == MaxBy(scores, Field(scores, "compliance_score"))
        latency_leader == MaxBy(scores, Field(scores, "latency_score"))
        established_options ==
            SelectSeq(scores, LAMBDA s :
                \E i \in DOMAIN options :
                    /\ options[i].name = s.option_name
                    /\ Contains(lower(options[i].description), "enterprise"))
    IN  (CASE context.primary_concern = "cost" ->
                <<[for |-> "cost optimization", option |-> cost_leader.option_name]>>
                \o (IF Len(scores) > 1
                    THEN <<[for |-> "balanced approach",
                            option |-> (IF scores[1] # cost_leader
                                        THEN scores[2] ELSE scores[1]).option_name]>>
                    ELSE <<>>)
           [] context.primary_concern = "performance" ->
                <<[for |-> "maximum performance", option |-> perf_leader.option_name]>>
                \o (IF Len(scores) > 1 /\ cost_leader # perf_leader
                    THEN <<[for |-> "performance on budget",
                            option |-> cost_leader.option_name]>>
                    ELSE <<>>)
           [] context.primary_concern = "compliance" ->
                <<[for |-> "regulatory compliance",
                   option |-> compliance_leader.option_name]>>
           [] OTHER -> <<>>)
        \o (IF context.risk_tolerance = "low" /\ established_options # <<>>
            THEN <<[for |-> "low-risk deployment",
                    option |-> established_options[1].option_name]>>
            ELSE <<>>)
        \o <<[for |-> "depends on priorities",
              option |-> scores[1].option_name,
              cost |-> cost_leader.option_name,
              performance |-> latency_leader.option_name]>>

\* A risk raised by a score at its threshold as well as below it
RiskAtThreshold(score, field, below, risk) ==
    IF score[field] <= below THEN <<[risk |-> risk, option |-> score.option_name]>>
    ELSE <<>>

\* if score.<field> < <below>: risks.append(f"{score.option_name}: <risk> ...")
RiskOf(score, field, below, risk) ==
    IF score[field] < below THEN <<[risk |-> risk, option |-> score.option_name]>>
    ELSE <<>>

identify_risks(options, scores, tradeoffs) ==
    LET high_impact_tradeoffs == SelectHigh(tradeoffs)
    IN  Flatten([i \in DOMAIN scores |->
                RiskOf(scores[i], "cost_score", 400, "cost")
                \o RiskOf(scores[i], "latency_score", 400, "performance")
                \o RiskOf(scores[i], "scalability_score", 400, "scalability")
                \o RiskOf(scores[i], "compliance_score", 600, "compliance")
                \o RiskOf(scores[i], "skill_score", 500, "team capability")])
        \o [k \in DOMAIN high_impact_tradeoffs |->
                [risk |-> "sacrifice", option |-> high_impact_tradeoffs[k].winner,
                 dimension |-> high_impact_tradeoffs[k].dimension]]

map_scenarios(options, scores, tradeoffs) ==
    [tight_budget          |-> MaxBy(scores, Field(scores, "cost_score")).option_name,
     high_performance      |-> MaxBy(scores, Performance(scores)).option_name,
     quick_deployment      |-> MaxBy(scores, Field(scores, "skill_score")).option_name,
     enterprise_deployment |-> MaxBy(scores, Field(scores, "compliance_score")).option_name,
     startup_mvp           |-> MaxBy(scores, Field(scores, "weighted_score")).option_name]

generate_summary(options, scores, context) ==
    [option_count    |-> Len(options),
     primary_concern |-> context.primary_concern,
     top_option      |-> scores[1].option_name,
     weighted_score  |-> scores[1].weighted_score]

\* _generate_insights reads scores[0] first: an empty list raises IndexError
analyze(options, constraints, scores, tradeoffs, use_case) ==
    LET context == analyze_context(constraints, use_case)
    IN  IF scores = <<>> THEN IndexError
        ELSE Return([summary            |-> generate_summary(options, scores, context),
                     key_insights       |-> generate_insights(options, scores, tradeoffs),
                     recommendations    |->
                         generate_recommendations(options, scores, tradeoffs, context),
                     risk_factors       |-> identify_risks(options, scores, tradeoffs),
                     best_for_scenarios |-> map_scenarios(options, scores, tradeoffs)])

-----------------------------------------------------------------------------
(* decision_engine.py *)

ValueError == Raise("ValueError")

\* DecisionEngine.validate_request: defined by the engine, called by neither
\* compare nor the handlers
validate_request(req) ==
    IF Len(req.options) < 2 THEN ValueError
    ELSE IF strip(req.use_case) = <<>> THEN ValueError
    ELSE Return(TRUE)

ComparisonResult(scores, tradeoffs, kiro_analysis) ==
    [comparison_id |-> None,
     scores        |-> scores,
     tradeoffs     |-> tradeoffs,
     kiro_analysis |-> kiro_analysis,
     timestamp     |-> None]

compare(req) ==
    The({IF Raised(scores) THEN scores
         ELSE The({IF Raised(tradeoffs) THEN tradeoffs
                   ELSE The({IF Raised(kiro_analysis) THEN kiro_analysis
                             ELSE Return(ComparisonResult(scores.value, tradeoffs.value,
                                                          kiro_analysis.value)) :
                             kiro_analysis \in
                                 {analyze(req.options, req.constraints, scores.value,
                                          tradeoffs.value, req.use_case)}}) :
                   tradeoffs \in {generate_tradeoffs(req.options, scores.value)}}) :
         scores \in {score_options(req.options, req.constraints)}})

\* The stages compare calls, in the order it calls them, up to the one that raises
compare_stages(req) ==
    The({<<"score_options">>
         \o (IF Raised(scores) THEN <<>>
             ELSE <<"generate_tradeoffs">>
                  \o (IF Raised(generate_tradeoffs(req.options, scores.value)) THEN <<>>
                      ELSE <<"analyze">>)) :
         scores \in {score_options(req.options, req.constraints)}})

-----------------------------------------------------------------------------
(* db.py *)

SqliteError == Raise("sqlite3.Error")

\* An id generator that gives every record the same id
SameId(db) == "uuid-1"

\* str(uuid.uuid4()): an identifier no stored row has
Uuids == <<"uuid-1", "uuid-2", "uuid-3", "uuid-4", "uuid-5", "uuid-6">>

NewId(db) == Uuids[Len(db.comparisons) + 1]

json_dumps(v) == [json |-> v]

json_loads(text) == text.json

\* A row whose result_data is the result with the id of the row put in
ComparisonRowWithId(comparison_id, req, result) ==
    [id           |-> comparison_id,
     request_data |-> json_dumps(req),
     result_data  |-> json_dumps([result EXCEPT !.comparison_id = comparison_id]),
     use_case     |-> req.use_case]

ComparisonRow(comparison_id, req, result) ==
    [id           |-> comparison_id,
     request_data |-> json_dumps(req),
     result_data  |-> json_dumps(result),
     use_case     |-> req.use_case]

\* next((s for s in result.scores if s.option_name == option.name), None)
OptionRow(comparison_id, option, result) ==
    LET at == {k \in DOMAIN result.scores : result.scores[k].option_name = option.name}
    IN  [comparison_id |-> comparison_id,
         option_name   |-> option.name,
         option_data   |-> json_dumps(option),
         score         |-> IF at = {} THEN 0
                           ELSE result.scores[CHOOSE k \in at : \A m \in at : k <= m]
                                    .weighted_score]

\* The tables after the first `done` INSERT statements of store_comparison:
\* the comparisons row, then one comparison_options row per option
Inserted(db, comparison_id, req, result, done) ==
    IF done = 0 THEN db
    ELSE [comparisons        |-> Append(db.comparisons,
                                        ComparisonRow(comparison_id, req, result)),
          comparison_options |->
              db.comparison_options
              \o [i \in 1..(done - 1) |->
                      OptionRow(comparison_id, req.options[i], result)]]

\* A rollback that keeps what the transaction wrote
keep_written(before, written) == written

\* conn.rollback(): the tables as they were when the transaction began
rollback(before, written) == before

\* store_comparison makes Len(options) + 3 calls to SQLite: connect, the
\* INSERT into comparisons, one INSERT per option, commit.  `fail` is the call
\* that raises, 0 when none does.
store_comparison(db, req, result, fail) ==
    LET comparison_id == NewId(db)
        n == Len(req.options)
    IN  IF fail = 0
        THEN [db      |-> Inserted(db, comparison_id, req, result, n + 1),
              outcome |-> Return(comparison_id)]
        ELSE IF fail = 1
        THEN [db |-> db, outcome |-> SqliteError]
        ELSE [db      |-> rollback(db, Inserted(db, comparison_id, req, result, fail - 2)),
              outcome |-> SqliteError]

\* Optional[Dict]: the empty sequence is None, a sequence of one record is
\* that record
get_comparison(db, comparison_id, fail) ==
    LET rows == SelectSeq(db.comparisons, LAMBDA row : row.id = comparison_id)
    IN  IF fail THEN SqliteError
        ELSE IF rows = <<>> THEN Return(<<>>)
        ELSE Return(<<[id       |-> comparison_id,
                       request  |-> json_loads(rows[1].request_data),
                       result   |-> json_loads(rows[1].result_data),
                       use_case |-> rows[1].use_case]>>)

\* created_at DATETIME DEFAULT CURRENT_TIMESTAMP: the column after an INSERT
\* made the table `rows`, the new rows stamped `now`
Stamped(column, rows, now) ==
    [i \in DOMAIN rows |-> IF i \in DOMAIN column THEN column[i] ELSE now]

\* ORDER BY c.created_at DESC: SQL fixes no order among rows of equal
\* created_at, so every order that is descending in created_at can come out
NewestFirstOrders(column) ==
    {order \in Orders(Len(column)) :
        \A k \in 1..(Len(column) - 1) : column[order[k]] >= column[order[k + 1]]}

\* LIMIT ?: SQLite takes a negative limit as no limit
Limit(rows, limit) == IF limit < 0 THEN rows ELSE FirstN(rows, limit)

\* `order` is the order the SELECT returned the groups in; the timestamp
\* column, a copy of the result's timestamp, is left out with that field
list_comparisons(db, column, limit, order, fail) ==
    IF fail THEN SqliteError
    ELSE Return(Limit(
             [k \in DOMAIN order |->
                 [id           |-> db.comparisons[order[k]].id,
                  use_case     |-> db.comparisons[order[k]].use_case,
                  created_at   |-> column[order[k]],
                  option_count |->
                      Len(SelectSeq(db.comparison_options,
                                    LAMBDA co : co.comparison_id
                                                    = db.comparisons[order[k]].id))]],
             limit))

-----------------------------------------------------------------------------
(* main.py *)

HTTPException(status_code, detail) ==
    [raise |-> "HTTPException", status_code |-> status_code, detail |-> detail]

Response(status_code, detail) == [status_code |-> status_code, detail |-> detail]

Ok(body) == [status_code |-> 200, body |-> body]

\* except Exception as e: raise HTTPException(status_code=500, detail=str(e))
\* HTTPException is an Exception too, so the clause catches the handler's own
except_Exception(raised) == Response(500, raised.raise)

\* decision_engine.compare(request) and the stages it runs, for each request
\* the service is given: a request's result depends on nothing else, and is
\* computed once
decision_engine ==
    [req \in ApiRequests |-> [compare |-> compare(req), stages |-> compare_stages(req)]]

\* A handler that returns the result as compare built it, the id of the
\* stored record left off
compare_options_without_id(db, req, fail) ==
    The({IF Raised(ran.compare)
         THEN [db |-> db, response |-> except_Exception(ran.compare),
               calls |-> ran.stages]
         ELSE The({[db |-> stored.db,
                    response |->
                        IF Raised(stored.outcome) THEN except_Exception(stored.outcome)
                        ELSE Ok(ran.compare.value),
                    calls |-> ran.stages \o <<"store_comparison">>] :
                   stored \in {store_comparison(db, req, ran.compare.value, fail)}}) :
         ran \in {decision_engine[req]}})

\* POST /compare
compare_options_handler(db, req, fail) ==
    The({IF Raised(ran.compare)
         THEN [db |-> db, response |-> except_Exception(ran.compare),
               calls |-> ran.stages]
         ELSE The({[db |-> stored.db,
                    response |->
                        IF Raised(stored.outcome) THEN except_Exception(stored.outcome)
                        ELSE Ok([ran.compare.value EXCEPT
                                     !.comparison_id = stored.outcome.value]),
                    calls |-> ran.stages \o <<"store_comparison">>] :
                   stored \in {store_comparison(db, req, ran.compare.value, fail)}}) :
         ran \in {decision_engine[req]}})

\* GET /comparisons/{comparison_id}
get_comparison_handler(db, comparison_id, fail) ==
    LET comparison == get_comparison(db, comparison_id, fail)
    IN  IF Raised(comparison) THEN except_Exception(comparison)
        ELSE IF comparison.value = <<>>
             THEN except_Exception(HTTPException(404, "Comparison not found"))
        ELSE Ok(comparison.value[1])

\* GET /comparisons
list_comparisons_handler(db, column, limit, order, fail) ==
    LET listed == list_comparisons(db, column, limit, order, fail)
    IN  IF Raised(listed) THEN except_Exception(listed)
        ELSE Ok([comparisons |-> listed.value])

-----------------------------------------------------------------------------
(* The service: the handlers of main.py over the store *)

NoRequest == [op |-> "none"]

NoResponse == [op |-> "none"]

Db == [comparisons |-> comparisons, comparison_options |-> comparison_options]

Init ==
    /\ comparisons = <<>>
    /\ comparison_options = <<>>
    /\ created_at = <<>>
    /\ clock = 0
    /\ request = NoRequest
    /\ response = NoResponse
    /\ calls = <<>>
    /\ fault = 0

CompareOptions ==
    /\ Len(comparisons) < MaxStored
    /\ \E req \in ApiRequests, fail \in 0..(MaxOptions + 3) :
          \E done \in {compare_options_handler(Db, req, fail)} :
              /\ fail <= Len(req.options) + 3
              /\ fail = 0 \/ \E k \in DOMAIN done.calls : done.calls[k] = "store_comparison"
              /\ comparisons' = done.db.comparisons
              /\ comparison_options' = done.db.comparison_options
              /\ created_at' = Stamped(created_at, done.db.comparisons, clock)
              /\ request' = [op |-> "compare", body |-> req]
              /\ response' = [op |-> "compare", http |-> done.response]
              /\ calls' = done.calls
              /\ fault' = fail
              /\ UNCHANGED clock

GetComparison ==
    \E k \in 1..(MaxStored + 1), fail \in BOOLEAN :
        /\ request' = [op |-> "get", comparison_id |-> Uuids[k]]
        /\ response' = [op |-> "get",
                        http |-> get_comparison_handler(Db, Uuids[k], fail)]
        /\ calls' = <<"get_comparison">>
        /\ fault' = IF fail THEN 1 ELSE 0
        /\ UNCHANGED <<comparisons, comparison_options, created_at, clock>>

Next == CompareOptions \/ GetComparison

Spec == Init /\ [][Next]_vars

-----------------------------------------------------------------------------
(* The pipeline's stages, each applied to a request's options, constraints *)
(* and use case                                                            *)

ScoringInit ==
    /\ comparisons = <<>>
    /\ comparison_options = <<>>
    /\ created_at = <<>>
    /\ clock = 0
    /\ request \in {[op |-> "stage", body |-> req] : req \in ScoringRequests}
    /\ response = NoResponse
    /\ calls = <<>>
    /\ fault = 0

Stage(name, outcome) ==
    /\ response' = [op |-> name, outcome |-> outcome]
    /\ calls' = <<name>>
    /\ UNCHANGED <<comparisons, comparison_options, request, fault, created_at, clock>>

\* Each behaviour applies one stage, once, to its request
ScoreOptions ==
    /\ response = NoResponse
    /\ Stage("score_options",
             score_options(request.body.options, request.body.constraints))

\* The trade-offs of the options as given and of the same options in
\* reverse order, from the same scores
GenerateTradeoffs ==
    /\ response = NoResponse
    /\ \E scores \in {score_options(request.body.options, request.body.constraints)},
          reversed \in {[i \in DOMAIN request.body.options |->
                           request.body.options[Len(request.body.options) + 1 - i]]} :
        /\ ~Raised(scores)
        /\ Stage("generate_tradeoffs",
                 [scores   |-> scores.value,
                  given    |-> generate_tradeoffs(request.body.options, scores.value),
                  reversed |-> generate_tradeoffs(reversed, scores.value)])

Analyze ==
    /\ response = NoResponse
    /\ \E scores \in {score_options(request.body.options, request.body.constraints)} :
        /\ ~Raised(scores)
        /\ \E tradeoffs \in {generate_tradeoffs(request.body.options, scores.value)} :
              /\ ~Raised(tradeoffs)
              /\ Stage("analyze",
                       analyze(request.body.options, request.body.constraints,
                               scores.value, tradeoffs.value, request.body.use_case))

\* A list less its k-th entry
Without(list, k) ==
    [i \in 1..(Len(list) - 1) |-> IF i < k THEN list[i] ELSE list[i + 1]]

\* generate_tradeoffs called on its own, with the scores of the options less
\* the k-th one
GenerateTradeoffsWithout ==
    /\ response = NoResponse
    /\ \E k \in DOMAIN request.body.options :
        \E scores \in {score_options(Without(request.body.options, k),
                                      request.body.constraints)} :
            /\ ~Raised(scores)
            /\ Stage("generate_tradeoffs without",
                     [scores   |-> scores.value,
                      result   |-> generate_tradeoffs(request.body.options, scores.value)])

ScoringNext == ScoreOptions \/ GenerateTradeoffs \/ GenerateTradeoffsWithout \/ Analyze

ScoringSpec == ScoringInit /\ [][ScoringNext]_vars

-----------------------------------------------------------------------------
(* score_options applied to one option and constraints it meets exactly *)

ExactInit ==
    /\ comparisons = <<>>
    /\ comparison_options = <<>>
    /\ created_at = <<>>
    /\ clock = 0
    /\ request \in {[op |-> "stage", body |-> req] : req \in ExactRequests}
    /\ response = NoResponse
    /\ calls = <<>>
    /\ fault = 0

ExactNext == ScoreOptions

ExactSpec == ExactInit /\ [][ExactNext]_vars

-----------------------------------------------------------------------------
(* The service with its clock: comparisons stored in the same second and in *)
(* later ones, and listed                                                   *)

Tick ==
    /\ clock < MaxClock
    /\ clock' = clock + 1
    /\ UNCHANGED <<comparisons, comparison_options, request, response, calls, fault,
                   created_at>>

ListComparisons ==
    \E limit \in (0 - 1)..MaxStored, fail \in BOOLEAN,
       order \in NewestFirstOrders(created_at) :
        /\ request' = [op |-> "list", limit |-> limit]
        /\ response' = [op |-> "list",
                        http |-> list_comparisons_handler(Db, created_at, limit, order,
                                                          fail)]
        /\ calls' = <<"list_comparisons">>
        /\ fault' = IF fail THEN 1 ELSE 0
        /\ UNCHANGED <<comparisons, comparison_options, created_at, clock>>

ListNext == CompareOptions \/ Tick \/ ListComparisons

ListSpec == Init /\ [][ListNext]_vars

-----------------------------------------------------------------------------
(* Concurrent POST /compare calls on the one event loop, sharing             *)
(* decision_engine and db.  A coroutine gives up control only at an await:   *)
(* a call is two steps, up to the return of `await decision_engine.compare`  *)
(* and from there through `await db.store_comparison` to its response.       *)
(* request, response, calls and fault hold one entry per caller.             *)

Callers == 1..MaxCallers

ConcurrentInit ==
    /\ comparisons = <<>>
    /\ comparison_options = <<>>
    /\ created_at = <<>>
    /\ clock = 0
    /\ request = [c \in Callers |-> NoRequest]
    /\ response = [c \in Callers |-> NoResponse]
    /\ calls = [c \in Callers |-> <<>>]
    /\ fault = [c \in Callers |-> 0]

\* result = await decision_engine.compare(request)
CallerCompare(c) ==
    /\ request[c] = NoRequest
    /\ \E req \in ApiRequests : \E ran \in {decision_engine[req]} :
          /\ request' = [request EXCEPT ![c] = [op |-> "compare", body |-> req]]
          /\ response' = [response EXCEPT ![c] =
                              IF Raised(ran.compare)
                              THEN [op |-> "compare", http |-> except_Exception(ran.compare)]
                              ELSE [op |-> "await store_comparison",
                                    result |-> ran.compare.value]]
          /\ calls' = [calls EXCEPT ![c] = ran.stages]
    /\ UNCHANGED <<comparisons, comparison_options, fault, created_at, clock>>

\* comparison_id = await db.store_comparison(request, result);
\* result.comparison_id = comparison_id; return result
CallerStore(c) ==
    /\ response[c].op = "await store_comparison"
    /\ \E fail \in 0..(Len(request[c].body.options) + 3) :
          \E stored \in {store_comparison(Db, request[c].body, response[c].result, fail)} :
              /\ comparisons' = stored.db.comparisons
              /\ comparison_options' = stored.db.comparison_options
              /\ created_at' = Stamped(created_at, stored.db.comparisons, clock)
              /\ response' = [response EXCEPT ![c] =
                      [op |-> "compare",
                       http |-> IF Raised(stored.outcome)
                                THEN except_Exception(stored.outcome)
                                ELSE Ok([response[c].result EXCEPT
                                            !.comparison_id = stored.outcome.value])]]
              /\ calls' = [calls EXCEPT ![c] = calls[c] \o <<"store_comparison">>]
              /\ fault' = [fault EXCEPT ![c] = fail]
    /\ UNCHANGED <<request, clock>>

ConcurrentNext == \E c \in Callers : CallerCompare(c) \/ CallerStore(c)

ConcurrentSpec == ConcurrentInit /\ [][ConcurrentNext]_vars

-----------------------------------------------------------------------------
(* Properties of the service *)

Called(stage) == \E k \in DOMAIN calls : calls[k] = stage

\* C1: a compare request with fewer than 2 options fails (it is not answered
\* 200) and store_comparison is not called for it
C1_FewOptionsRejected ==
    (request.op = "compare" /\ Len(request.body.options) < 2) =>
        /\ response.http.status_code # 200
        /\ ~Called("store_comparison")

\* C2: a compare request with 2 options or more whose use-case text is empty
\* or whitespace-only fails, and no stage ran for it: no scoring, no trade-off
\* generation, no analysis, no store write
C2_BlankUseCaseRejected ==
    (/\ request.op = "compare"
     /\ Len(request.body.options) >= 2
     /\ strip(request.body.use_case) = <<>>) =>
        /\ response.http.status_code # 200
        /\ calls = <<>>

\* C3: reading by an id the store does not hold, the read itself succeeding,
\* is answered 404
C3_AbsentIsNotFound ==
    (/\ request.op = "get"
     /\ fault = 0
     /\ \A i \in DOMAIN comparisons : comparisons[i].id # request.comparison_id) =>
        response.http.status_code = 404

\* C10: a compare request answered 200 added to the store the comparisons row
\* of the id it returned and, in order, one comparison_options row of that id
\* per option of the request, and nothing else; a compare request answered
\* with an error left both tables as they were
C10_NoPartialOutcome ==
    [][response'.op = "compare" =>
          IF response'.http.status_code = 200
          THEN LET id == response'.http.body.comparison_id
                   options == request'.body.options
               IN  /\ id # None
                   /\ \A i \in DOMAIN comparisons : comparisons[i].id # id
                   /\ Len(comparisons') = Len(comparisons) + 1
                   /\ SubSeq(comparisons', 1, Len(comparisons)) = comparisons
                   /\ comparisons'[Len(comparisons')].id = id
                   /\ Len(comparison_options') = Len(comparison_options) + Len(options)
                   /\ SubSeq(comparison_options', 1, Len(comparison_options))
                          = comparison_options
                   /\ \A k \in DOMAIN options :
                          LET row == comparison_options'[Len(comparison_options) + k]
                          IN  row.comparison_id = id /\ row.option_name = options[k].name
          ELSE /\ response'.http.status_code = 500
               /\ UNCHANGED <<comparisons, comparison_options>>]_vars

\* C10, its case: a store write that failed after the comparisons row was
\* inserted, the store holding an earlier comparison
C10_FailedAfterMainRow ==
    /\ request.op = "compare"
    /\ fault >= 3
    /\ Called("store_comparison")
    /\ response.http.status_code = 500
    /\ Len(comparisons) = 1

Succeeded == request.op = "compare" /\ response.http.status_code = 200

\* C11: a compare request answered 200 ran score_options, generate_tradeoffs,
\* analyze and store_comparison, in that order and nothing else; its scores
\* are those of its options, its trade-offs are generated from those scores
\* and its analysis from both; its comparison_id is not null and is the id of
\* a stored record
C11_StagesInOrder ==
    Succeeded =>
        LET req == request.body
            result == response.http.body
        IN  /\ calls = <<"score_options", "generate_tradeoffs", "analyze",
                         "store_comparison">>
            /\ Return(result.scores) = score_options(req.options, req.constraints)
            /\ Return(result.tradeoffs) = generate_tradeoffs(req.options, result.scores)
            /\ Return(result.kiro_analysis)
                   = analyze(req.options, req.constraints, result.scores,
                             result.tradeoffs, req.use_case)
            /\ result.comparison_id # None
            /\ \E i \in DOMAIN comparisons : comparisons[i].id = result.comparison_id

\* C11, its case: a second comparison stored, of two options or more that
\* have trade-offs
C11_SecondStored ==
    /\ Succeeded
    /\ Len(request.body.options) >= 2
    /\ response.http.body.tradeoffs # <<>>
    /\ Len(comparisons) = 2
    /\ comparisons[2].id = response.http.body.comparison_id

Answered(c) == response[c].op = "compare"

Stored(c) == Answered(c) /\ response[c].http.status_code = 200

\* C12: of the calls in flight together, each one answered has the answer
\* its request gets alone (the same result, or the same error unless its
\* store write failed); the ids returned are distinct; under each id the
\* store holds one comparisons row, of that call's request and result, and
\* one comparison_options row per option of that call, in order; nothing
\* else is in the store
C12_CallsAreIndependent ==
    /\ \A c \in Callers : Answered(c) =>
           LET req == request[c].body
               alone == compare_options_handler(
                            [comparisons |-> <<>>, comparison_options |-> <<>>],
                            req, fault[c]).response
           IN  IF response[c].http.status_code = 200
               THEN /\ alone.status_code = 200
                    /\ [response[c].http.body EXCEPT !.comparison_id = None]
                           = [alone.body EXCEPT !.comparison_id = None]
               ELSE response[c].http = alone
    /\ \A c, d \in Callers :
           (Stored(c) /\ Stored(d) /\ c # d) =>
               response[c].http.body.comparison_id # response[d].http.body.comparison_id
    /\ \A c \in Callers : Stored(c) =>
           LET id == response[c].http.body.comparison_id
               rows == SelectSeq(comparisons, LAMBDA row : row.id = id)
               option_rows == SelectSeq(comparison_options,
                                        LAMBDA row : row.comparison_id = id)
               options == request[c].body.options
           IN  /\ Len(rows) = 1
               /\ json_loads(rows[1].request_data) = request[c].body
               /\ json_loads(rows[1].result_data)
                      = [response[c].http.body EXCEPT !.comparison_id = None]
               /\ Len(option_rows) = Len(options)
               /\ \A k \in DOMAIN options :
                      json_loads(option_rows[k].option_data) = options[k]
    /\ Len(comparisons) = Cardinality({c \in Callers : Stored(c)})
    /\ \A k \in DOMAIN comparison_options : \E c \in Callers :
           /\ Stored(c)
           /\ comparison_options[k].comparison_id = response[c].http.body.comparison_id

\* C12, its case: two calls of different requests, both stored, the first
\* caller's record written after the second caller's
C12_BothStored ==
    /\ Stored(1)
    /\ Stored(2)
    /\ request[1].body # request[2].body
    /\ comparisons[1].id = response[2].http.body.comparison_id
    /\ comparisons[2].id = response[1].http.body.comparison_id

-----------------------------------------------------------------------------
(* Properties of the pipeline's stages *)

DistinctNames(options) ==
    \A i, j \in DOMAIN options : i # j => options[i].name # options[j].name

Scored == response.op = "score_options" /\ ~Raised(response.outcome)

\* C4: the list score_options returns is non-increasing in weighted_score, and
\* it is the scores of the options in an order that keeps options of equal
\* weighted_score in their input order
C4_SortedStable ==
    Scored =>
        LET options == request.body.options
            scores == response.outcome.value
            each == [i \in DOMAIN options |->
                        score_single_option(options[i], request.body.constraints).value]
        IN  /\ Len(scores) = Len(options)
            /\ \A k \in 1..(Len(scores) - 1) :
                   scores[k].weighted_score >= scores[k + 1].weighted_score
            /\ \E p \in Orders(Len(options)) :
                   /\ \A k \in DOMAIN scores : scores[k] = each[p[k]]
                   /\ \A k, m \in DOMAIN scores :
                          (k < m /\ scores[k].weighted_score = scores[m].weighted_score)
                              => p[k] < p[m]

\* C4, its case: two options of different names and equal weighted_score
C4_Tie ==
    /\ Scored
    /\ Len(response.outcome.value) = 2
    /\ response.outcome.value[1].weighted_score = response.outcome.value[2].weighted_score
    /\ response.outcome.value[1].option_name # response.outcome.value[2].option_name

ScoreFields ==
    {"cost_score", "latency_score", "scalability_score", "compliance_score",
     "cloud_score", "skill_score"}

\* C5: each of the six dimension scores of every returned OptionScore is in
\* [0, 10]
C5_DimensionScoresInRange ==
    Scored =>
        \A k \in DOMAIN response.outcome.value : \A f \in ScoreFields :
            /\ response.outcome.value[k][f] >= 0
            /\ response.outcome.value[k][f] <= 1000

\* weighted is the hundredth nearest to 0.25 cost + 0.20 latency +
\* 0.20 scalability + 0.15 compliance + 0.10 cloud + 0.10 skill of the exact
\* dimension scores d: with D the product of their denominators and S / D the
\* combination in hundredths, | weighted - S / D | <= 1/2
CombinedThenRounded(weighted, d) ==
    LET D == d.cost.d * d.latency.d * d.scalability.d
             * d.compliance.d * d.cloud.d * d.skill.d
        S == 25 * d.cost.n * (D \div d.cost.d)
             + 20 * d.latency.n * (D \div d.latency.d)
             + 20 * d.scalability.n * (D \div d.scalability.d)
             + 15 * d.compliance.n * (D \div d.compliance.d)
             + 10 * d.cloud.n * (D \div d.cloud.d)
             + 10 * d.skill.n * (D \div d.skill.d)
    IN  /\ 2 * (weighted * D - S) <= D
        /\ 2 * (S - weighted * D) <= D

\* C6: every weighted_score is the weighted combination of the option's
\* unrounded dimension scores rounded to 2 decimals, the six weights sum to
\* 1.0, and it lies between the least and the greatest of the option's six
\* reported dimension scores
C6_WeightedIsConvexCombination ==
    Scored =>
        LET options == request.body.options
            scores == response.outcome.value
        IN  /\ weights.cost + weights.latency + weights.scalability
               + weights.compliance + weights.cloud + weights.skill = 100
            /\ \E p \in Orders(Len(options)) : \A k \in DOMAIN scores :
                   /\ scores[k].option_name = options[p[k]].name
                   /\ CombinedThenRounded(
                          scores[k].weighted_score,
                          DimensionScores(options[p[k]], request.body.constraints))
            /\ \A k \in DOMAIN scores :
                   /\ \E f \in ScoreFields : scores[k][f] <= scores[k].weighted_score
                   /\ \E f \in ScoreFields : scores[k][f] >= scores[k].weighted_score

\* C6, its case: an option whose weighted_score is strictly between its least
\* and greatest dimension scores, and is not the hundredth nearest to the
\* combination R / 10000 of its reported (rounded) dimension scores
C6_RoundingOrderMatters ==
    /\ Scored
    /\ \E k \in DOMAIN response.outcome.value :
           LET s == response.outcome.value[k]
               R == 25 * s.cost_score + 20 * s.latency_score + 20 * s.scalability_score
                    + 15 * s.compliance_score + 10 * s.cloud_score + 10 * s.skill_score
           IN  /\ \E f \in ScoreFields : s[f] < s.weighted_score
               /\ \E f \in ScoreFields : s[f] > s.weighted_score
               /\ 2 * (R - 100 * s.weighted_score) > 100
                  \/ 2 * (100 * s.weighted_score - R) > 100

TradeoffsGenerated ==
    /\ response.op = "generate_tradeoffs"
    /\ ~Raised(response.outcome.given)
    /\ ~Raised(response.outcome.reversed)

ScoreOf(scores, name) == scores[CHOOSE k \in DOMAIN scores : scores[k].option_name = name]

Gap(x, y) == IF x < y THEN y - x ELSE x - y

\* C7: for options of distinct names, every pair of them and every dimension,
\* generate_tradeoffs emits one TradeOff when the gap g of the pair's scores
\* on the dimension is over 1.0 and none otherwise; the impact is high iff
\* g >= 4.0, medium iff 2.0 <= g < 4.0, low iff 1.0 < g < 2.0; the winner is
\* the option of the strictly higher score
C7_TradeoffPerGap ==
    (TradeoffsGenerated /\ DistinctNames(request.body.options)) =>
        LET options == request.body.options
            scores == response.outcome.scores
            tradeoffs == response.outcome.given.value
            dims == {"cost", "latency", "scalability", "compliance", "cloud", "skill"}
            field == [dim \in dims |->
                         CASE dim = "cost" -> "cost_score"
                           [] dim = "latency" -> "latency_score"
                           [] dim = "scalability" -> "scalability_score"
                           [] dim = "compliance" -> "compliance_score"
                           [] dim = "cloud" -> "cloud_score"
                           [] dim = "skill" -> "skill_score"]
            of(i, j, dim) == {t \in DOMAIN tradeoffs :
                                 /\ tradeoffs[t].option_a = options[i].name
                                 /\ tradeoffs[t].option_b = options[j].name
                                 /\ tradeoffs[t].dimension = dim}
        IN  /\ \A i, j \in DOMAIN options : \A dim \in dims :
                   LET a == ScoreOf(scores, options[i].name)[field[dim]]
                       b == ScoreOf(scores, options[j].name)[field[dim]]
                       g == Gap(a, b)
                   IN  IF i < j /\ g > 100
                       THEN /\ Cardinality(of(i, j, dim)) = 1
                            /\ \A t \in of(i, j, dim) :
                                   /\ tradeoffs[t].impact = "high" <=> g >= 400
                                   /\ tradeoffs[t].impact = "medium" <=> (200 <= g /\ g < 400)
                                   /\ tradeoffs[t].impact = "low" <=> g < 200
                                   /\ tradeoffs[t].winner =
                                          IF a > b THEN options[i].name ELSE options[j].name
                       ELSE of(i, j, dim) = {}
            /\ \A t \in DOMAIN tradeoffs : tradeoffs[t].dimension \in dims

\* C7, its case: trade-offs of the three impacts, one of a gap of exactly 2.0
\* and one of exactly 4.0, and a dimension of a gap of exactly 1.0
C7_EveryImpact ==
    /\ TradeoffsGenerated
    /\ DistinctNames(request.body.options)
    /\ Len(request.body.options) = 2
    /\ LET a == response.outcome.scores[1]
           b == response.outcome.scores[2]
           tradeoffs == response.outcome.given.value
       IN  /\ \A impact \in {"high", "medium", "low"} :
                  \E t \in DOMAIN tradeoffs : tradeoffs[t].impact = impact
           /\ \E f \in ScoreFields : Gap(a[f], b[f]) = 100
           /\ \E f \in ScoreFields : Gap(a[f], b[f]) = 200
           /\ \E f \in ScoreFields : Gap(a[f], b[f]) = 400

\* t and u are trade-offs of the same two options on the same dimension, the
\* options taken in opposite orders
Mirrored(t, u) ==
    /\ t.dimension = u.dimension
    /\ t.option_a = u.option_b
    /\ t.option_b = u.option_a

\* C8: the trade-offs of a list of options and those of the reversed list:
\* each trade-off of one has its mirror in the other, of the same winner and
\* the same impact, and no two trade-offs of the same options and dimension
\* name different winners
C8_TradeoffSymmetry ==
    TradeoffsGenerated =>
        LET given == response.outcome.given.value
            reversed == response.outcome.reversed.value
        IN  /\ Len(given) = Len(reversed)
            /\ \A t \in DOMAIN given : \E u \in DOMAIN reversed :
                   /\ Mirrored(given[t], reversed[u])
                   /\ given[t].winner = reversed[u].winner
                   /\ given[t].impact = reversed[u].impact
            /\ \A u \in DOMAIN reversed : \E t \in DOMAIN given :
                   /\ Mirrored(given[t], reversed[u])
                   /\ given[t].winner = reversed[u].winner
                   /\ given[t].impact = reversed[u].impact
            /\ \A t \in DOMAIN given : \A u \in DOMAIN reversed :
                   Mirrored(given[t], reversed[u]) => given[t].winner = reversed[u].winner

\* C8, its case: two options, a dimension the first given wins and a
\* dimension the second given wins
C8_BothWin ==
    /\ TradeoffsGenerated
    /\ Len(request.body.options) = 2
    /\ \E t, u \in DOMAIN response.outcome.given.value :
           /\ response.outcome.given.value[t].winner = request.body.options[1].name
           /\ response.outcome.given.value[u].winner = request.body.options[2].name
    /\ response.outcome.reversed.value # <<>>

\* C9: the recommendations analyze returns are 2 or more
C9_SeveralRecommendations ==
    (response.op = "analyze" /\ ~Raised(response.outcome)) =>
        Len(response.outcome.value.recommendations) >= 2

\* C13: score_options of an empty options list raises; it returns no list
C13_EmptyOptionsRejected ==
    (response.op = "score_options" /\ request.body.options = <<>>) =>
        Raised(response.outcome)

\* C14: generate_tradeoffs of options one of whose names has no entry in the
\* scores raises KeyError, whatever the number of options
C14_MissingNameRaises ==
    (/\ response.op = "generate_tradeoffs without"
     /\ \E i \in DOMAIN request.body.options :
            \A k \in DOMAIN response.outcome.scores :
                response.outcome.scores[k].option_name # request.body.options[i].name) =>
        response.outcome.result = KeyError

\* The place of the record of an id in the order the records were stored in
StoredAt(id) == CHOOSE i \in DOMAIN comparisons : comparisons[i].id = id

\* C15: a list answered for a limit of 0 or more has at most `limit`
\* summaries, and a record stored after another one never comes after it
C15_NewestFirst ==
    (response.op = "list" /\ response.http.status_code = 200) =>
        LET listed == response.http.body.comparisons
        IN  /\ request.limit >= 0 => Len(listed) <= request.limit
            /\ \A a, b \in DOMAIN listed :
                   a < b => StoredAt(listed[a].id) > StoredAt(listed[b].id)

\* The place of the option of a name in the request's options
PlaceOf(name) ==
    CHOOSE i \in DOMAIN request.body.options : request.body.options[i].name = name

DimensionPlace(dimension) ==
    CHOOSE d \in 1..6 :
        <<"cost", "latency", "scalability", "compliance", "cloud", "skill">>[d] = dimension

\* The place of a trade-off in the iteration over pairs (i, j), i < j, of the
\* options as given, and over the six dimensions within a pair
IterationPlace(t) ==
    (PlaceOf(t.option_a) * (Len(request.body.options) + 1) + PlaceOf(t.option_b)) * 6
        + DimensionPlace(t.dimension)

\* C16: the trade-offs of options of distinct names come in the order of the
\* pairs (i, j), i < j, of the options as given and, within a pair, in the
\* order cost, latency, scalability, compliance, cloud, skill; option_a is the
\* option given earlier
C16_TradeoffsInIterationOrder ==
    (TradeoffsGenerated /\ DistinctNames(request.body.options)) =>
        LET given == response.outcome.given.value
        IN  /\ \A k \in DOMAIN given :
                   PlaceOf(given[k].option_a) < PlaceOf(given[k].option_b)
            /\ \A k, m \in DOMAIN given :
                   k < m => IterationPlace(given[k]) < IterationPlace(given[m])

\* C16, its case: three options, trade-offs of each of the three pairs, several
\* of one pair, and a trade-off of high impact after one of a lesser impact
C16_ThreePairs ==
    /\ TradeoffsGenerated
    /\ DistinctNames(request.body.options)
    /\ Len(request.body.options) = 3
    /\ LET given == response.outcome.given.value
       IN  /\ \A i, j \in 1..3 :
                  i < j => \E k \in DOMAIN given :
                               /\ PlaceOf(given[k].option_a) = i
                               /\ PlaceOf(given[k].option_b) = j
           /\ \E k, m \in DOMAIN given :
                  /\ k < m
                  /\ given[k].option_a = given[m].option_a
                  /\ given[k].option_b = given[m].option_b
           /\ \E k, m \in DOMAIN given :
                  k < m /\ given[k].impact # "high" /\ given[m].impact = "high"

\* How many entries of a list of names are a given name
Count(names, name) == Cardinality({k \in DOMAIN names : names[k] = name})

\* C17: the scores compare passes to the trade-off generator are one per option
\* of the request, the same names as many times each, and generate_tradeoffs,
\* given them, raises no KeyError
C17_OneScorePerOption ==
    /\ Scored =>
           LET scored == [k \in DOMAIN response.outcome.value |->
                             response.outcome.value[k].option_name]
               given  == [i \in DOMAIN request.body.options |->
                             request.body.options[i].name]
           IN  /\ Len(scored) = Len(given)
               /\ \A i \in DOMAIN given :
                      Count(scored, given[i]) = Count(given, given[i])
    /\ response.op = "generate_tradeoffs" => ~Raised(response.outcome.given)

\* C17, its case: trade-offs generated for three options in an order that is
\* not the order of their scores
C17_LookupOutOfOrder ==
    /\ response.op = "generate_tradeoffs"
    /\ Len(request.body.options) = 3
    /\ response.outcome.given.value # <<>>
    /\ \E i \in DOMAIN request.body.options :
           response.outcome.scores[i].option_name # request.body.options[i].name

\* The request is of one option that meets the constraints exactly
MeetsExactly ==
    /\ Len(request.body.options) = 1
    /\ LET option == request.body.options[1]
           constraints == request.body.constraints
       IN  /\ option.cost \in Scale /\ option.cost = constraints.budget
           /\ option.latency \in Scale /\ option.latency = constraints.max_latency
           /\ option.scalability \in Scale
           /\ option.scalability = constraints.required_scale
           /\ option.compliance = constraints.compliance
           /\ option.team_skill_required = constraints.team_skill
           /\ constraints.preferred_cloud \in {option.cloud, None}

\* C18: one option scored against constraints it meets exactly, at values on
\* the scale 1-10, has cost, latency, compliance and skill scores of 10, a
\* scalability score from 8 to 10 and a cloud score of 8, 9 or 10
C18_ExactlyMetScores ==
    (response.op = "score_options" /\ MeetsExactly) =>
        /\ ~Raised(response.outcome)
        /\ Len(response.outcome.value) = 1
        /\ LET score == response.outcome.value[1]
           IN  /\ score.cost_score = 1000
               /\ score.latency_score = 1000
               /\ score.compliance_score = 1000
               /\ score.skill_score = 1000
               /\ score.scalability_score \in 800..1000
               /\ score.cloud_score \in {800, 900, 1000}

\* C18, its case: the top of the scale in cost and scalability, the bottom in
\* latency, the highest tiers and no preferred cloud
C18_TopOfScale ==
    /\ response.op = "score_options"
    /\ MeetsExactly
    /\ request.body.options[1].cost = 10
    /\ request.body.options[1].latency = 1
    /\ request.body.options[1].scalability = 10
    /\ request.body.options[1].compliance = "gdpr"
    /\ request.body.options[1].team_skill_required = "expert"
    /\ request.body.constraints.preferred_cloud = None
    /\ response.outcome.value[1].cloud_score = 800
    /\ response.outcome.value[1].scalability_score = 800

Analyzed == response.op = "analyze" /\ ~Raised(response.outcome)

\* The scores and the trade-offs analyze was given
AnalyzedScores == score_options(request.body.options, request.body.constraints).value

AnalyzedTradeoffs == generate_tradeoffs(request.body.options, AnalyzedScores).value

RiskKinds == {"cost", "performance", "scalability", "compliance", "team capability"}

\* The threshold of a kind of risk is passed by a score
Triggered(score, kind) ==
    CASE kind = "cost"            -> score.cost_score < 400
      [] kind = "performance"     -> score.latency_score < 400
      [] kind = "scalability"     -> score.scalability_score < 400
      [] kind = "compliance"      -> score.compliance_score < 600
      [] kind = "team capability" -> score.skill_score < 500

\* C19: the risks analyze returns are, for each kind of risk and each option
\* name, as many as the scores of that name pass the kind's threshold (cost,
\* latency and scalability below 4, compliance below 6, skill below 5), and
\* one for each trade-off of high impact; there are no others
C19_RisksAreThoseTriggered ==
    Analyzed =>
        \E risks \in {response.outcome.value.risk_factors},
           scores \in {AnalyzedScores}, tradeoffs \in {AnalyzedTradeoffs} :
            /\ \A kind \in RiskKinds, i \in DOMAIN scores :
                   Cardinality({r \in DOMAIN risks :
                                   /\ risks[r].risk = kind
                                   /\ risks[r].option = scores[i].option_name})
                       = Cardinality({k \in DOMAIN scores :
                                         /\ scores[k].option_name = scores[i].option_name
                                         /\ Triggered(scores[k], kind)})
            /\ Cardinality({r \in DOMAIN risks : risks[r].risk = "sacrifice"})
                   = Cardinality({t \in DOMAIN tradeoffs : tradeoffs[t].impact = "high"})
            /\ Len(risks)
                   = Cardinality({at \in (DOMAIN scores) \X RiskKinds :
                                     Triggered(scores[at[1]], at[2])})
                     + Cardinality({t \in DOMAIN tradeoffs : tradeoffs[t].impact = "high"})

\* C19, its case: two options with risks of two kinds or more between them,
\* one with a score at a threshold and no risk of it, and a trade-off of high
\* impact
C19_RisksOfEachSort ==
    /\ Analyzed
    /\ \E risks \in {response.outcome.value.risk_factors}, scores \in {AnalyzedScores} :
           /\ Len(scores) = 2
           /\ Cardinality({kind \in RiskKinds :
                               \E r \in DOMAIN risks : risks[r].risk = kind}) >= 2
           /\ \E i \in DOMAIN scores :
                  /\ scores[i].scalability_score = 400
                  /\ \A r \in DOMAIN risks :
                         ~(/\ risks[r].risk = "scalability"
                           /\ risks[r].option = scores[i].option_name)
           /\ \E r \in DOMAIN risks : risks[r].risk = "sacrifice"

\* C20: the result a successful POST /compare returns carries the id of the
\* record it stored, and the result_data of that record is the same result
\* with comparison_id None; GET /comparisons/{id} of a stored record returns
\* that id at the top and, as result, the result_data of the record
C20_StoredCopyHasNoId ==
    /\ (response.op = "compare" /\ response.http.status_code = 200) =>
           \E row \in {comparisons[Len(comparisons)]} :
               /\ response.http.body.comparison_id = row.id
               /\ response.http.body.comparison_id # None
               /\ json_loads(row.result_data).comparison_id = None
               /\ json_loads(row.result_data)
                      = [response.http.body EXCEPT !.comparison_id = None]
    /\ (response.op = "get" /\ response.http.status_code = 200) =>
           /\ response.http.body.id = request.comparison_id
           /\ response.http.body.result.comparison_id = None
           /\ \E i \in DOMAIN comparisons :
                  /\ comparisons[i].id = response.http.body.id
                  /\ response.http.body.result = json_loads(comparisons[i].result_data)
                  /\ response.http.body.request = json_loads(comparisons[i].request_data)

\* C20, its case: the second of two stored records read back, its result one
\* with trade-offs
C20_SecondReadBack ==
    /\ response.op = "get"
    /\ response.http.status_code = 200
    /\ Len(comparisons) = 2
    /\ response.http.body.id = comparisons[2].id
    /\ response.http.body.result.tradeoffs # <<>>

====
